---- MODULE Spec2Model ----
(***************************************************************************)
(* A model of the SID runtime: the element registry that mirrors the       *)
(* annotated nodes of the document (element-registry), the interaction     *)
(* executor with its pending-operation map and timers                      *)
(* (interaction-executor), the attribute parser both depend on             *)
(* (attribute-parser), and the facade's teardown (sid-api).                *)
(*                                                                         *)
(* The document is three element nodes.  Node 1 is a <div> that contains   *)
(* node 2, an <input>; node 3 is a <button>.  Nodes 1 and 3 are children   *)
(* of document.body while attached.  Every node carries the raw values of  *)
(* data-sid, data-sid-disabled and data-sid-tracking.                      *)
(*                                                                         *)
(* The browser is the environment: a MutationObserver queues one record    *)
(* per DOM operation and delivers the whole queue to the callback in a     *)
(* microtask, so the handlers read the document as it is when the batch    *)
(* is processed; a timer callback is a task of its own and runs only once  *)
(* the microtask queue is drained, and never before its delay elapsed.     *)
(* A call may pass any timeout, so the delays of different calls elapse in *)
(* any order: each call records whether its own timeout has elapsed.       *)
(***************************************************************************)
EXTENDS Integers, Sequences, FiniteSets, TLC

\* ------------------------------------------------------------------ bounds
MaxEdits == 3      \* DOM operations of the page, registry specification
MaxPageEdits == 1  \* DOM operations of the page, executor specification
MaxQueue == 2      \* mutation records awaiting delivery
MaxCalls == 2      \* execute calls issued
MaxReads == 3      \* reads of the context metadata
MaxLifecycle == 4  \* init() and destroy() calls
MaxStarts == 2     \* operations started in the tracker
MaxPolls == 1      \* poll calls
MaxInputLen == 4   \* pieces of a data-sid-input value
MaxTime == 3       \* milliseconds the clock runs

\* ----------------------------------------------------------- the document
Nodes == {1, 2, 3}
TopNodes == {1, 3}
NoNode == 0
Ids == {"a", "b"}
ExecIds == {"a"}                \* the identifiers execute is called with
NoId == "-"                     \* data-sid absent (or empty: both are falsy)
TrackingAttrs == {"absent", "none", "navigation", "external"}
DisabledAttrs == {"absent", "true"}
ActionTypes == {"click", "fill", "select"}
NoSignal == [status |-> "-", message |-> "-", effects |-> "-"]
SyncSignals == {[status |-> "completed", message |-> "ok", effects |-> "fx"]}
Payloads == {[status |-> "completed", message |-> "ok", effects |-> "fx"],
             [status |-> "error", message |-> "bad", effects |-> "-"]}

VARIABLES
    tops,               \* children of document.body, in document order
    sid,                \* node -> raw data-sid
    disabledAttr,       \* node -> raw data-sid-disabled
    trackingAttr,       \* node -> raw data-sid-tracking
    observer,           \* ElementRegistry.observer is connected
    records,            \* mutation records queued for the observer callback
    elements,           \* ElementRegistry.elements
    pendingOperations,  \* InteractionExecutor.pendingOperations: id -> call
    calls,              \* every execute call: its promise, timer and history
    operations,         \* OperationTracker.operations
    idCounter,          \* OperationTracker.idCounter
    edits,              \* DOM operations the page may still perform
    snap,               \* registry and markup at the last detachment
    runtime,            \* index.ts: currentInstance, window.SID, instances made
    context,            \* context-parser: metadata block, cache, reads so far
    polls,              \* OperationTracker.poll: every poll and its promise
    now,                \* Date.now()
    returned,           \* the identifiers OperationTracker.start has returned
    input               \* parseInputAttribute: the string and what became of it

domVars == <<tops, sid, disabledAttr, trackingAttr>>
regVars == <<observer, records, elements>>
execVars == <<pendingOperations, calls>>
trackerVars == <<operations, idCounter>>
pollVars == <<polls, now, returned>>
auxVars == <<runtime, context, polls, now, returned, input>>
vars == <<tops, sid, disabledAttr, trackingAttr, observer, records, elements,
          pendingOperations, calls, operations, idCounter, edits, snap,
          runtime, context, polls, now, returned, input>>

\* ---------------------------------------------------------------- helpers
Range(s) == {s[i] : i \in 1..Len(s)}

RECURSIVE SeqWithout(_, _)
SeqWithout(s, x) ==
    IF s = <<>> THEN <<>>
    ELSE IF Head(s) = x THEN SeqWithout(Tail(s), x)
    ELSE <<Head(s)>> \o SeqWithout(Tail(s), x)

MapSet(m, k, v) == [x \in DOMAIN m \cup {k} |-> IF x = k THEN v ELSE m[x]]
MapDelete(m, k) == [x \in DOMAIN m \ {k} |-> m[x]]
EmptyMap == [x \in {} |-> 0]

\* the element children of a node, in document order
Children(n) == IF n = 1 THEN <<2>> ELSE <<>>

\* a node and its descendants, in document order
Subtree(n) == <<n>> \o Children(n)

RECURSIVE DocOrder(_)
DocOrder(ts) == IF ts = <<>> THEN <<>> ELSE Subtree(Head(ts)) \o DocOrder(Tail(ts))

Attached(n) == n \in Range(DocOrder(tops))

\* the node kinds triggerAction tests with instanceof
Kind(n) == CASE n = 1 -> "div" [] n = 2 -> "input" [] OTHER -> "button"

\* --------------------------------------------------------- attribute-parser
VALID_TRACKING_TYPES == {"async", "navigation", "external", "none"}

isValidTrackingType(value) == value \in VALID_TRACKING_TYPES

\* a parse that does not read data-sid-tracking
parseAttributesUntracked(n) ==
    IF sid[n] = NoId
    THEN [null |-> TRUE, id |-> NoId, tracking |-> "async", disabled |-> FALSE]
    ELSE [null |-> FALSE, id |-> sid[n], tracking |-> "async",
          disabled |-> (disabledAttr[n] = "true")]

\* parseAttributes(el): null without a data-sid; tracking defaults to async
\* unless the raw value is a valid kind; disabled only for the raw "true"
parseAttributes(n) ==
    IF sid[n] = NoId
    THEN [null |-> TRUE, id |-> NoId, tracking |-> "async", disabled |-> FALSE]
    ELSE [null |-> FALSE,
          id |-> sid[n],
          tracking |-> IF trackingAttr[n] # "absent" /\ isValidTrackingType(trackingAttr[n])
                       THEN trackingAttr[n] ELSE "async",
          disabled |-> (disabledAttr[n] = "true")]

\* --------------------------------------------------------- element-registry
generateSelector(id) == <<"data-sid", id>>

isTracked(tracking) == tracking # "none"

convertToSIDElement(attrs) ==
    [id |-> attrs.id,
     selector |-> generateSelector(attrs.id),
     tracked |-> isTracked(attrs.tracking),
     disabled |-> attrs.disabled]

\* parseElement(el): only used where the result is tested for null first
parseElement(n) == convertToSIDElement(parseAttributes(n))

\* document.querySelector(selector): the first attached node, in document
\* order, whose data-sid equals the selector's value
RECURSIVE FirstMatch(_, _)
FirstMatch(order, id) ==
    IF order = <<>> THEN NoNode
    ELSE IF sid[Head(order)] = id THEN Head(order)
    ELSE FirstMatch(Tail(order), id)

querySelector(selector) == FirstMatch(DocOrder(tops), selector[2])

\* registers, in order, every node of the sequence that parses to an element
RECURSIVE RegisterAll(_, _)
RegisterAll(reg, order) ==
    IF order = <<>> THEN reg
    ELSE RegisterAll(IF parseAttributes(Head(order)).null THEN reg
                     ELSE MapSet(reg, sid[Head(order)], parseElement(Head(order))),
                     Tail(order))

\* removes, in order, the identifier of every node of the sequence
RECURSIVE UnregisterAll(_, _)
UnregisterAll(reg, order) ==
    IF order = <<>> THEN reg
    ELSE UnregisterAll(IF sid[Head(order)] = NoId THEN reg
                       ELSE MapDelete(reg, sid[Head(order)]),
                       Tail(order))

\* scanDocument(): clear, then register every [data-sid] node in document order
scanDocument(ts) == RegisterAll(EmptyMap, DocOrder(ts))

\* a handler that registers the added node and forgets its descendants
handleAddedNodeOnly(reg, node) == RegisterAll(reg, <<node>>)

\* handleAddedNode(node): the node itself, then its [data-sid] descendants
handleAddedNode(reg, node) == RegisterAll(RegisterAll(reg, <<node>>), Children(node))

\* handleRemovedNode(node): the node's identifier, then its descendants'
handleRemovedNode(reg, node) == UnregisterAll(UnregisterAll(reg, <<node>>), Children(node))

\* a handler that acts on data-sid changes only
handleAttributeChangeSidOnly(reg, element, attributeName) ==
    IF attributeName = "data-sid"
    THEN IF sid[element] # NoId
         THEN RegisterAll(reg, <<element>>)
         ELSE LET found == {id \in DOMAIN reg : querySelector(reg[id].selector) = element}
              IN  IF found = {} THEN reg ELSE MapDelete(reg, CHOOSE id \in found : TRUE)
    ELSE reg

\* handleAttributeChange(element, attributeName)
handleAttributeChange(reg, element, attributeName) ==
    IF attributeName = "data-sid"
    THEN IF sid[element] # NoId
         THEN RegisterAll(reg, <<element>>)
         ELSE \* the entry whose selector still resolves to the element
              LET found == {id \in DOMAIN reg : querySelector(reg[id].selector) = element}
              IN  IF found = {} THEN reg ELSE MapDelete(reg, CHOOSE id \in found : TRUE)
    ELSE IF sid[element] # NoId /\ sid[element] \in DOMAIN reg
         THEN RegisterAll(reg, <<element>>)
         ELSE reg

RECURSIVE FoldAdded(_, _)
FoldAdded(reg, nodes) ==
    IF nodes = <<>> THEN reg ELSE FoldAdded(handleAddedNode(reg, Head(nodes)), Tail(nodes))

RECURSIVE FoldRemoved(_, _)
FoldRemoved(reg, nodes) ==
    IF nodes = <<>> THEN reg ELSE FoldRemoved(handleRemovedNode(reg, Head(nodes)), Tail(nodes))

\* one mutation record: added nodes first, then removed nodes
handleRecord(reg, mutation) ==
    IF mutation.type = "childList"
    THEN FoldRemoved(FoldAdded(reg, mutation.added), mutation.removed)
    ELSE handleAttributeChange(reg, mutation.target, mutation.attributeName)

\* handleMutations(mutations): every record of the batch, in order
RECURSIVE handleMutations(_, _)
handleMutations(reg, mutations) ==
    IF mutations = <<>> THEN reg
    ELSE handleMutations(handleRecord(reg, Head(mutations)), Tail(mutations))

ChildListRecord(added, removed) ==
    [type |-> "childList", added |-> added, removed |-> removed,
     target |-> NoNode, attributeName |-> "-"]

AttributeRecord(n, name) ==
    [type |-> "attributes", added |-> <<>>, removed |-> <<>>,
     target |-> n, attributeName |-> name]

\* the observer queues a record for a mutation inside document.body
Observe(rec, inDocument) ==
    IF observer /\ inDocument THEN Append(records, rec) ELSE records

CanEdit == edits > 0 /\ (observer => Len(records) < MaxQueue)

\* ----------------------------------------------------- interaction-executor
NoResult == [success |-> FALSE, status |-> "-", text |-> "-", effects |-> "-"]

Result(success, status, text, effects) ==
    [success |-> success, status |-> status, text |-> text, effects |-> effects]

\* a timer armed without the caller's timeout: setTimeout(callback)
timerDelayOmitted(timeout) == "zero"

\* setTimeout(callback, timeout): the delay the timer of a call is armed with
timerDelay(timeout) == timeout

\* the browser runs a timer callback once the timer's delay has elapsed
TimerDue(call) == call.delay = "zero" \/ call.elapsed

\* triggerAction(domElement, action) throws when the node is not of the kind
\* the action needs; click applies to every element
triggerActionThrows(n, action) ==
    CASE action = "click" -> FALSE
      [] action = "fill" -> Kind(n) # "input"
      [] action = "select" -> Kind(n) # "select"
      [] OTHER -> TRUE

\* the promise's resolve: only the first call settles it
resolve(call, res, by) ==
    IF call.settled = "pending"
    THEN [call EXCEPT !.settled = "resolved", !.result = res, !.resolves = Append(@, by)]
    ELSE [call EXCEPT !.resolves = Append(@, by)]

\* a resolver that leaves the timer armed
clearTimeoutSkipped(call) == call

clearTimeout(call) == [call EXCEPT !.timer = IF @ = "armed" THEN "cleared" ELSE @]

\* a resolver whose success flag follows the signaled status
pendingResolveByStatus(st, c, result) ==
    [calls |-> [st.calls EXCEPT ![c] =
                    resolve(clearTimeout(@),
                            Result(result.status # "error", result.status, result.message,
                                   result.effects),
                            "complete")],
     pending |-> MapDelete(st.pending, st.calls[c].id)]

\* the resolver stored in the pending entry of call c
pendingResolve(st, c, result) ==
    [calls |-> [st.calls EXCEPT ![c] =
                    resolve(clearTimeout(@),
                            Result(TRUE, result.status, result.message, result.effects),
                            "complete")],
     pending |-> MapDelete(st.pending, st.calls[c].id)]

\* a complete() that falls back to the most recent call when nothing is pending
completeLatest(st, elementId, result) ==
    IF elementId \in DOMAIN st.pending
    THEN pendingResolve(st, st.pending[elementId], result)
    ELSE IF st.calls # <<>> THEN pendingResolve(st, Len(st.calls), result)
    ELSE st

\* complete(elementId, result)
complete(st, elementId, result) ==
    IF elementId \in DOMAIN st.pending
    THEN pendingResolve(st, st.pending[elementId], result)
    ELSE st

\* a timer callback that acts only while the entry is still the call's own
timeoutCallbackIfOwner(st, c) ==
    IF st.calls[c].id \in DOMAIN st.pending /\ st.pending[st.calls[c].id] = c
    THEN [calls |-> [st.calls EXCEPT ![c] =
                        resolve([@ EXCEPT !.timer = "fired"],
                                Result(TRUE, "timeout", "Operation timed out", "-"),
                                "timeout")],
          pending |-> MapDelete(st.pending, st.calls[c].id)]
    ELSE [st EXCEPT !.calls[c].timer = "fired"]

\* the timer callback of call c
timeoutCallback(st, c) ==
    [calls |-> [st.calls EXCEPT ![c] =
                    resolve([@ EXCEPT !.timer = "fired"],
                            Result(TRUE, "timeout", "Operation timed out", "-"),
                            "timeout")],
     pending |-> MapDelete(st.pending, st.calls[c].id)]

\* the event handlers of the page run inside the dispatch and may signal
dispatch(st, id, signal) == IF signal = NoSignal THEN st ELSE complete(st, id, signal)

NewCall(id) ==
    [id |-> id, branch |-> "-",
     timer |-> "none", delay |-> "-", elapsed |-> FALSE, resolves |-> <<>>,
     settled |-> "pending", result |-> NoResult, dispatched |-> FALSE,
     liveDisabled |-> LET n == FirstMatch(DocOrder(tops), id)
                      IN  n # NoNode /\ disabledAttr[n] = "true",
     overwritten |-> FALSE]

\* an async branch that dispatches before it stores the resolver
suspendDispatchFirst(st, call, domElement, action, signal) ==
    LET armed == [call EXCEPT !.timer = "armed", !.delay = timerDelay("timeout")]
    IN  IF triggerActionThrows(domElement, action)
        THEN [calls |-> Append(st.calls,
                               resolve(clearTimeout(armed),
                                       Result(FALSE, "error", "Action execution failed", "-"),
                                       "catch")),
              pending |-> MapDelete(st.pending, call.id)]
        ELSE LET st1 == dispatch(st, call.id, signal)
             IN  [calls |-> Append(st1.calls, [armed EXCEPT !.dispatched = TRUE]),
                  pending |-> MapSet(st1.pending, call.id, Len(st1.calls) + 1)]

\* an async branch whose catch leaves the timer armed
suspendCatchKeepsTimer(st, call, domElement, action, signal) ==
    LET c == Len(st.calls) + 1
        armed == [call EXCEPT !.timer = "armed", !.delay = timerDelay("timeout")]
        marked == [i \in DOMAIN st.calls |->
                     IF call.id \in DOMAIN st.pending /\ st.pending[call.id] = i
                     THEN [st.calls[i] EXCEPT !.overwritten = TRUE] ELSE st.calls[i]]
        st1 == [calls |-> Append(marked, armed), pending |-> MapSet(st.pending, call.id, c)]
    IN  IF triggerActionThrows(domElement, action)
        THEN [calls |-> [st1.calls EXCEPT ![c] =
                            resolve(@, Result(FALSE, "error", "Action execution failed", "-"),
                                    "catch")],
              pending |-> MapDelete(st1.pending, call.id)]
        ELSE dispatch([st1 EXCEPT !.calls[c].dispatched = TRUE], call.id, signal)

\* the promise of the async branch: arm the timer, store the resolver, dispatch
suspend(st, call, domElement, action, signal) ==
    LET c == Len(st.calls) + 1
        armed == [call EXCEPT !.timer = "armed", !.delay = timerDelay("timeout")]
        marked == [i \in DOMAIN st.calls |->
                     IF call.id \in DOMAIN st.pending /\ st.pending[call.id] = i
                     THEN [st.calls[i] EXCEPT !.overwritten = TRUE] ELSE st.calls[i]]
        st1 == [calls |-> Append(marked, armed), pending |-> MapSet(st.pending, call.id, c)]
    IN  IF triggerActionThrows(domElement, action)
        THEN [calls |-> [st1.calls EXCEPT ![c] =
                            resolve(clearTimeout(@),
                                    Result(FALSE, "error", "Action execution failed", "-"),
                                    "catch")],
              pending |-> MapDelete(st1.pending, call.id)]
        ELSE dispatch([st1 EXCEPT !.calls[c].dispatched = TRUE], call.id, signal)

\* a branch that falls through to the promise of the async branch
immediateFallsThrough(st, call, domElement, action, status, signal) ==
    suspend(st, call, domElement, action, signal)

\* a branch without its try/catch: the exception rejects the promise
immediateUncaught(st, call, domElement, action, status, signal) ==
    IF triggerActionThrows(domElement, action)
    THEN [calls |-> Append(st.calls, [call EXCEPT !.settled = "rejected"]),
          pending |-> st.pending]
    ELSE LET st1 == dispatch(st, call.id, signal)
         IN  [calls |-> Append(st1.calls,
                               resolve([call EXCEPT !.dispatched = TRUE],
                                       Result(TRUE, status, status, "-"), "return")),
              pending |-> st1.pending]

\* the try/catch around triggerAction in the none, navigation and external branches
immediate(st, call, domElement, action, status, signal) ==
    IF triggerActionThrows(domElement, action)
    THEN [calls |-> Append(st.calls,
                           resolve(call, Result(FALSE, "error", "Action execution failed", "-"),
                                   "catch")),
          pending |-> st.pending]
    ELSE LET st1 == dispatch(st, call.id, signal)
         IN  [calls |-> Append(st1.calls,
                               resolve([call EXCEPT !.dispatched = TRUE],
                                       Result(TRUE, status, status, "-"), "return")),
              pending |-> st1.pending]

\* an execute without the disabled check
executeSkipsDisabled(st, id, action, signal) ==
    LET call == NewCall(id)
        fail(branch, text) ==
            [calls |-> Append(st.calls,
                              resolve([call EXCEPT !.branch = branch],
                                      Result(FALSE, "error", text, "-"), "return")),
             pending |-> st.pending]
    IN  IF id \notin DOMAIN elements
        THEN fail("unknown", "Element not found")
        ELSE LET domElement == querySelector(elements[id].selector)
             IN  IF domElement = NoNode
                 THEN fail("detached", "Element not found in DOM")
                 ELSE LET trackingType == parseAttributes(domElement).tracking
                          found == [call EXCEPT !.branch = trackingType]
                      IN  IF trackingType \in {"none", "navigation", "external"}
                          THEN immediate(st, found, domElement, action,
                                         IF trackingType = "none" THEN "completed"
                                         ELSE trackingType, signal)
                          ELSE suspend(st, found, domElement, action, signal)

\* execute(id, action, {timeout})
execute(st, id, action, signal) ==
    LET call == NewCall(id)
        fail(branch, text) ==
            [calls |-> Append(st.calls,
                              resolve([call EXCEPT !.branch = branch],
                                      Result(FALSE, "error", text, "-"), "return")),
             pending |-> st.pending]
    IN  IF id \notin DOMAIN elements
        THEN fail("unknown", "Element not found")
        ELSE IF elements[id].disabled
        THEN fail("disabled", "Element is disabled")
        ELSE LET domElement == querySelector(elements[id].selector)
             IN  IF domElement = NoNode
                 THEN fail("detached", "Element not found in DOM")
                 ELSE LET trackingType == parseAttributes(domElement).tracking
                          found == [call EXCEPT !.branch = trackingType]
                      IN  IF trackingType \in {"none", "navigation", "external"}
                          THEN immediate(st, found, domElement, action,
                                         IF trackingType = "none" THEN "completed"
                                         ELSE trackingType, signal)
                          ELSE suspend(st, found, domElement, action, signal)

ExecState == [calls |-> calls, pending |-> pendingOperations]

\* ------------------------------------------------------------------ tracker
\* OperationTracker.clear(): the records go, the counter stays
trackerClear == EmptyMap

\* ----------------------------------------------------------- context-parser
\* the metadata block of the document: absent, blank, not JSON, JSON that is
\* no object, or an object naming the application
Scripts == {"missing", "empty", "malformed", "array", "app1", "app2"}

\* the record parseContextScript builds from the block; "{}" is the record
\* without fields
scriptContent(script) == IF script \in {"app1", "app2"} THEN script ELSE "{}"

NoObject == [null |-> TRUE, ref |-> 0, content |-> "{}"]

\* clearContextCache()
clearContextCache(ctx) ==
    [ctx EXCEPT !.cachedContext = NoObject,
                !.contextParsed = FALSE,
                !.epoch = IF ctx.contextParsed THEN @ + 1 ELSE @]

\* the parse of the metadata block: the cache holds the record only when the
\* block is an object; every other outcome leaves the cache null
parseBlock(ctx) ==
    IF ctx.script \in {"missing", "empty", "malformed", "array"}
    THEN [ctx EXCEPT !.contextParsed = TRUE, !.cachedContext = NoObject]
    ELSE [ctx EXCEPT !.contextParsed = TRUE,
                     !.cachedContext = [null |-> FALSE, ref |-> ctx.nextRef,
                                        content |-> scriptContent(ctx.script)],
                     !.nextRef = @ + 1]

\* the value of `cachedContext || {}` and of `return {}`: the cached object,
\* or an object literal allocated by this evaluation
cachedOrEmpty(ctx) ==
    IF ctx.cachedContext.null
    THEN [ctx |-> [ctx EXCEPT !.nextRef = @ + 1],
          result |-> [ref |-> ctx.nextRef, content |-> "{}"]]
    ELSE [ctx |-> ctx,
          result |-> [ref |-> ctx.cachedContext.ref, content |-> ctx.cachedContext.content]]

\* a parseContextScript that parses the block on every call
parseContextScriptUncached(ctx) == cachedOrEmpty(parseBlock(ctx))

\* parseContextScript(): the context after the call and the object returned
parseContextScript(ctx) ==
    IF ctx.contextParsed THEN cachedOrEmpty(ctx) ELSE cachedOrEmpty(parseBlock(ctx))

\* getContextMetadata(), with the read logged: what it returned, under which
\* cache epoch, whether the cache was unparsed, and what the block held
getContextMetadata(ctx) ==
    LET out == parseContextScript(ctx)
    IN  [out.ctx EXCEPT !.reads = Append(@, [ref |-> out.result.ref,
                                             content |-> out.result.content,
                                             epoch |-> ctx.epoch,
                                             fresh |-> ~ctx.contextParsed,
                                             doc |-> scriptContent(ctx.script)])]

\* the module state before the first read
FreshContext(script) ==
    [script |-> script, cachedContext |-> NoObject, contextParsed |-> FALSE,
     nextRef |-> 1, epoch |-> 0, reads |-> <<>>]

\* ------------------------------------------------------------------ runtime
NoRuntime == [currentInstance |-> 0, windowSID |-> 0, instances |-> 0,
              active |-> {}, lastInit |-> 0, inits |-> 0, destroys |-> 0]

\* the parts of the runtime a specification does not exercise
Idle ==
    /\ runtime = [currentInstance |-> 1, windowSID |-> 1, instances |-> 1,
                  active |-> {1}, lastInit |-> 1, inits |-> 1, destroys |-> 0]
    /\ context = FreshContext("missing")
    /\ polls = <<>>
    /\ now = 0
    /\ returned = <<>>
    /\ input = <<>>

\* -------------------------------------------------------------------- state
NoSnap == [top |-> NoNode, reg |-> EmptyMap, phase |-> "-"]

InitialSids == {[n \in Nodes |-> CASE n = 1 -> "a" [] n = 2 -> "b" [] OTHER -> "a"],
                [n \in Nodes |-> CASE n = 1 -> NoId [] n = 2 -> "a" [] OTHER -> "b"]}
PageSids == {[n \in Nodes |-> CASE n = 1 -> NoId [] n = 2 -> "a" [] OTHER -> "b"],
             [n \in Nodes |-> CASE n = 1 -> NoId [] n = 2 -> "a" [] OTHER -> "a"]}
InitialTracking == {[n \in Nodes |-> "absent"],
                    [n \in Nodes |-> CASE n = 1 -> "none" [] n = 2 -> "absent"
                                       [] OTHER -> "navigation"]}

\* the state once init(options) has constructed the facade: the registry has
\* scanned the document and, with observeDOM, started observing
Init ==
    /\ tops = <<1, 3>>
    /\ sid \in PageSids
    /\ disabledAttr = [n \in Nodes |-> "absent"]
    /\ trackingAttr = [n \in Nodes |-> "absent"]
    /\ observer \in BOOLEAN
    /\ records = <<>>
    /\ elements = scanDocument(tops)
    /\ pendingOperations = EmptyMap
    /\ calls = <<>>
    /\ operations = EmptyMap
    /\ idCounter = 0
    /\ edits = MaxPageEdits
    /\ snap = NoSnap
    /\ Idle

\* ----------------------------------------------------- the page edits the DOM
Edited(newSnap) ==
    /\ edits' = edits - 1
    /\ snap' = newSnap
    /\ UNCHANGED <<observer, elements, pendingOperations, calls, operations, idCounter>>
    /\ UNCHANGED auxVars

\* body.removeChild(t)
Detach(t) ==
    /\ CanEdit
    /\ t \in Range(tops)
    /\ tops' = SeqWithout(tops, t)
    /\ records' = Observe(ChildListRecord(<<>>, <<t>>), TRUE)
    /\ UNCHANGED <<sid, disabledAttr, trackingAttr>>
    /\ Edited(IF observer /\ records = <<>>
              THEN [top |-> t, reg |-> elements, phase |-> "detached"]
              ELSE NoSnap)

\* body.appendChild(t)
Attach(t) ==
    /\ CanEdit
    /\ t \in TopNodes \ Range(tops)
    /\ tops' = Append(tops, t)
    /\ records' = Observe(ChildListRecord(<<t>>, <<>>), TRUE)
    /\ UNCHANGED <<sid, disabledAttr, trackingAttr>>
    /\ Edited(IF snap.top = t /\ snap.phase = "detached"
              THEN [snap EXCEPT !.phase = "reattached"]
              ELSE NoSnap)

\* body.replaceChild(new, old): one record holds the added and the removed node
Replace(new, old) ==
    /\ CanEdit
    /\ old \in Range(tops)
    /\ new \in TopNodes \ Range(tops)
    /\ tops' = [i \in DOMAIN tops |-> IF tops[i] = old THEN new ELSE tops[i]]
    /\ records' = Observe(ChildListRecord(<<new>>, <<old>>), TRUE)
    /\ UNCHANGED <<sid, disabledAttr, trackingAttr>>
    /\ Edited(NoSnap)

\* n.setAttribute("data-sid", v) or n.removeAttribute("data-sid")
SetSid(n, v) ==
    /\ CanEdit
    /\ sid[n] # v
    /\ sid' = [sid EXCEPT ![n] = v]
    /\ records' = Observe(AttributeRecord(n, "data-sid"), Attached(n))
    /\ UNCHANGED <<tops, disabledAttr, trackingAttr>>
    /\ Edited(NoSnap)

\* n.setAttribute("data-sid-disabled", v) or its removal
SetDisabled(n, v) ==
    /\ CanEdit
    /\ disabledAttr[n] # v
    /\ disabledAttr' = [disabledAttr EXCEPT ![n] = v]
    /\ records' = Observe(AttributeRecord(n, "data-sid-disabled"), Attached(n))
    /\ UNCHANGED <<tops, sid, trackingAttr>>
    /\ Edited(NoSnap)

\* n.setAttribute("data-sid-tracking", v) or its removal
SetTracking(n, v) ==
    /\ CanEdit
    /\ trackingAttr[n] # v
    /\ trackingAttr' = [trackingAttr EXCEPT ![n] = v]
    /\ records' = Observe(AttributeRecord(n, "data-sid-tracking"), Attached(n))
    /\ UNCHANGED <<tops, sid, disabledAttr>>
    /\ Edited(NoSnap)

\* ------------------------------------------------------------ the operations
\* the observer callback: the microtask that delivers the queued records
\* an observer callback that also drops the pending operations of the
\* identifiers it unregisters
HandleMutationsDroppingPending ==
    /\ observer
    /\ records # <<>>
    /\ elements' = handleMutations(elements, records)
    /\ records' = <<>>
    /\ pendingOperations' = [id \in DOMAIN pendingOperations \cap DOMAIN elements' |->
                                pendingOperations[id]]
    /\ UNCHANGED <<tops, sid, disabledAttr, trackingAttr, observer,
                   calls, operations, idCounter, edits, snap>>
    /\ UNCHANGED auxVars

HandleMutations ==
    /\ observer
    /\ records # <<>>
    /\ elements' = handleMutations(elements, records)
    /\ records' = <<>>
    /\ UNCHANGED <<tops, sid, disabledAttr, trackingAttr, observer, pendingOperations,
                   calls, operations, idCounter, edits, snap>>
    /\ UNCHANGED auxVars

\* an interact() that also starts a legacy operation record for the call
ExecuteStartingOperation(id, action, signal) ==
    /\ Len(calls) < MaxCalls
    /\ LET st == execute(ExecState, id, action, signal)
       IN  /\ calls' = st.calls
           /\ pendingOperations' = st.pending
           /\ (signal # NoSignal => st.calls[Len(st.calls)].dispatched)
    /\ operations' = MapSet(operations, <<"op", idCounter + 1>>,
                            [id |-> <<"op", idCounter + 1>>, status |-> "pending",
                             completedAt |-> -1, message |-> "-", effects |-> "-"])
    /\ idCounter' = idCounter + 1
    /\ UNCHANGED <<tops, sid, disabledAttr, trackingAttr, observer, records, elements,
                   edits, snap>>
    /\ UNCHANGED auxVars

\* SID.interact(id, action, {timeout}); signal is what the page's handler
\* passes to SID.complete during the dispatch, if it calls it there
Execute(id, action, signal) ==
    /\ Len(calls) < MaxCalls
    /\ LET st == execute(ExecState, id, action, signal)
       IN  /\ calls' = st.calls
           /\ pendingOperations' = st.pending
           /\ (signal # NoSignal => st.calls[Len(st.calls)].dispatched)
    /\ UNCHANGED <<tops, sid, disabledAttr, trackingAttr, observer, records, elements,
                   operations, idCounter, edits, snap>>
    /\ UNCHANGED auxVars

\* SID.complete(elementId, result)
Complete(elementId, result) ==
    /\ LET st == complete(ExecState, elementId, result)
       IN  /\ calls' = st.calls
           /\ pendingOperations' = st.pending
    /\ UNCHANGED <<tops, sid, disabledAttr, trackingAttr, observer, records, elements,
                   operations, idCounter, edits, snap>>
    /\ UNCHANGED auxVars

\* the timer of call c fires: a task, so the microtask queue is empty
TimerFire(c) ==
    /\ c \in DOMAIN calls
    /\ calls[c].timer = "armed"
    /\ TimerDue(calls[c])
    /\ records = <<>>
    /\ LET st == timeoutCallback(ExecState, c)
       IN  /\ calls' = st.calls
           /\ pendingOperations' = st.pending
    /\ UNCHANGED <<tops, sid, disabledAttr, trackingAttr, observer, records, elements,
                   operations, idCounter, edits, snap>>
    /\ UNCHANGED auxVars

\* the timeout passed by call c elapses
Elapse(c) ==
    /\ c \in DOMAIN calls
    /\ calls[c].timer # "none"
    /\ ~calls[c].elapsed
    /\ calls' = [calls EXCEPT ![c].elapsed = TRUE]
    /\ UNCHANGED <<tops, sid, disabledAttr, trackingAttr, observer, records, elements,
                   pendingOperations, operations, idCounter, edits, snap>>
    /\ UNCHANGED auxVars

\* destroy(): SIDAPIImpl.destroy() runs registry.destroy(), tracker.clear()
\* and clearContextCache()
apiDestroy ==
    /\ observer' = FALSE
    /\ records' = <<>>
    /\ elements' = EmptyMap
    /\ operations' = trackerClear
    /\ snap' = NoSnap
    /\ context' = clearContextCache(context)

\* a destroy() that also empties the executor's pending map
DestroyDroppingPending ==
    /\ apiDestroy
    /\ pendingOperations' = EmptyMap
    /\ UNCHANGED <<tops, sid, disabledAttr, trackingAttr, calls, idCounter, edits>>
    /\ UNCHANGED <<runtime, polls, now, returned, input>>

\* destroy() called on the API instance
Destroy ==
    /\ apiDestroy
    /\ UNCHANGED <<tops, sid, disabledAttr, trackingAttr, pendingOperations, calls,
                   idCounter, edits>>
    /\ UNCHANGED <<runtime, polls, now, returned, input>>

\* the executor with the registry: the page edits the nodes that carry the
\* identifiers execute is called with
Next ==
    \/ \E t \in TopNodes : Detach(t)
    \/ \E n \in Nodes, v \in DisabledAttrs : sid[n] \in ExecIds /\ SetDisabled(n, v)
    \/ \E n \in Nodes, v \in TrackingAttrs : sid[n] \in ExecIds /\ SetTracking(n, v)
    \/ HandleMutations
    \/ \E id \in ExecIds, action \in ActionTypes, signal \in SyncSignals \cup {NoSignal} :
          Execute(id, action, signal)
    \/ \E id \in Ids, result \in Payloads : Complete(id, result)
    \/ \E c \in 1..MaxCalls : TimerFire(c)
    \/ \E c \in 1..MaxCalls : Elapse(c)
    \/ Destroy

Spec == Init /\ [][Next]_vars

\* the registry alone: the page edits the document, the observer delivers
RegistryInit ==
    /\ tops \in {<<1, 3>>, <<1>>}
    /\ sid \in InitialSids
    /\ disabledAttr = [n \in Nodes |-> "absent"]
    /\ trackingAttr \in InitialTracking
    /\ observer \in BOOLEAN
    /\ records = <<>>
    /\ elements = scanDocument(tops)
    /\ pendingOperations = EmptyMap
    /\ calls = <<>>
    /\ operations = EmptyMap
    /\ idCounter = 0
    /\ edits = MaxEdits
    /\ snap = NoSnap
    /\ Idle

RegistryNext ==
    \/ \E t \in TopNodes : Detach(t)
    \/ \E t \in TopNodes : Attach(t)
    \/ \E new \in TopNodes, old \in TopNodes : Replace(new, old)
    \/ \E n \in Nodes, v \in Ids \cup {NoId} : SetSid(n, v)
    \/ \E n \in Nodes, v \in DisabledAttrs : SetDisabled(n, v)
    \/ \E n \in Nodes, v \in TrackingAttrs : SetTracking(n, v)
    \/ HandleMutations
    \/ Destroy

RegistrySpec == RegistryInit /\ [][RegistryNext]_vars

\* what the browser's event loop does on its own: it runs a queued observer
\* microtask, lets a timeout elapse, and fires a timer that is due and armed
EventLoop ==
    \/ HandleMutations
    \/ \E c \in 1..MaxCalls : Elapse(c) \/ TimerFire(c)

\* the executor under the browser's scheduling: the event loop never stops
\* while it has something to run
FairSpec == Init /\ [][Next]_vars /\ WF_vars(EventLoop)

\* ---------------------------------------------------------------- properties
SyncKinds == {"none", "navigation", "external"}

TimeoutResult == Result(TRUE, "timeout", "Operation timed out", "-")

\* the pending entry of the call's identifier is the call's own
OwnsEntry(c) ==
    calls[c].id \in DOMAIN pendingOperations /\ pendingOperations[calls[c].id] = c

\* C1: for every unsettled execute call on an async-tracked element, a
\* complete(id, r) delivered before the call's timeout has elapsed settles
\* that call with success true and r's status, message and effects, and
\* cancels the call's timer
C1_CompleteSettlesEveryPendingCall ==
    [][\A c \in DOMAIN calls, r \in Payloads :
         (/\ calls[c].branch = "async"
          /\ calls[c].settled = "pending"
          /\ ~calls[c].elapsed
          /\ Complete(calls[c].id, r))
         => /\ calls'[c].settled = "resolved"
            /\ calls'[c].result = Result(TRUE, r.status, r.message, r.effects)
            /\ calls'[c].timer = "cleared"]_vars

\* C2: a call settles with status timeout only through its own timer, and the
\* timer fires only once the call's timeout has elapsed; the call then settles
\* with success true and status timeout, no pending entry remains for its
\* identifier, and a later complete(id, r) changes nothing
C2_TimeoutSettlesAfterDelay ==
    [][\A c \in DOMAIN calls :
         /\ TimerFire(c) =>
              /\ calls[c].elapsed
              /\ calls'[c].settled = "resolved"
              /\ calls'[c].result = TimeoutResult
              /\ calls[c].id \notin DOMAIN pendingOperations'
              /\ \A r \in Payloads :
                    complete([calls |-> calls', pending |-> pendingOperations'],
                             calls[c].id, r)
                    = [calls |-> calls', pending |-> pendingOperations']
         /\ (calls[c].result.status # "timeout" /\ calls'[c].result.status = "timeout")
              => TimerFire(c)]_vars

C2_TimedOut ==
    \E c \in DOMAIN calls :
        /\ calls[c].resolves = <<"timeout">>
        /\ calls[c].result = TimeoutResult
        /\ calls[c].elapsed
        /\ calls[c].id \notin DOMAIN pendingOperations

\* C3: every execute call that is issued eventually settles with a result,
\* and no call is ever rejected, whatever the page, the app and destroy do
\* in between
C3_EveryCallSettles ==
    /\ [](\A c \in DOMAIN calls : calls[c].settled # "rejected")
    /\ <>[](\A c \in DOMAIN calls : calls[c].settled = "resolved")

C3_ThrowBecameResult ==
    \E c \in DOMAIN calls :
        /\ calls[c].resolves = <<"catch">>
        /\ calls[c].timer = "cleared"
        /\ calls[c].result = Result(FALSE, "error", "Action execution failed", "-")

\* C4: the promise of every call is resolved at most once; a call is
\* unsettled exactly while its timer is armed; a call settled by a completion
\* signal has its timer cleared, a call settled by its timeout was never
\* completed, and a settled call owns no pending entry
C4_SettlesExactlyOnce ==
    \A c \in DOMAIN calls :
        /\ Len(calls[c].resolves) <= 1
        /\ (calls[c].settled = "resolved") <=> (Len(calls[c].resolves) = 1)
        /\ (calls[c].settled = "pending") <=> (calls[c].timer = "armed")
        /\ calls[c].resolves = <<"complete">> => calls[c].timer = "cleared"
        /\ calls[c].resolves = <<"timeout">> => calls[c].timer = "fired"
        /\ OwnsEntry(c) => calls[c].settled = "pending"

C4_CompletedThenTimePassed ==
    \E c \in DOMAIN calls :
        /\ calls[c].resolves = <<"complete">>
        /\ calls[c].elapsed
        /\ calls[c].timer = "cleared"
        /\ calls[c].id \notin DOMAIN pendingOperations

\* C5 as written: a call whose pending entry was overwritten by a second call
\* on the same identifier never settles
C5_OverwrittenNeverSettles ==
    \A c \in DOMAIN calls : calls[c].overwritten => calls[c].settled = "pending"

\* C5: a call whose pending entry was overwritten by a second call on the
\* same identifier no longer owns the entry and is out of reach of
\* complete(): it stays unsettled with its timer armed until that timer
\* fires, and then settles with success true and status timeout
C5_OverwrittenSettlesByTimeout ==
    \A c \in DOMAIN calls :
        calls[c].overwritten =>
            /\ ~OwnsEntry(c)
            /\ \/ calls[c].settled = "pending" /\ calls[c].timer = "armed"
               \/ /\ calls[c].settled = "resolved"
                  /\ calls[c].resolves = <<"timeout">>
                  /\ calls[c].result = TimeoutResult

C5_OverwrittenTimedOut ==
    \E c \in DOMAIN calls :
        /\ calls[c].overwritten
        /\ calls[c].resolves = <<"timeout">>
        /\ \E d \in DOMAIN calls : d > c /\ calls[d].id = calls[c].id /\ calls[d].timer # "none"

\* C6: a call issued while the node its identifier selects carries
\* data-sid-disabled="true" returns success false with status error and
\* dispatches nothing
C6_DisabledNeverDispatches ==
    \A c \in DOMAIN calls :
        calls[c].liveDisabled =>
            /\ ~calls[c].dispatched
            /\ calls[c].result.status = "error"
            /\ ~calls[c].result.success

\* C7: a call on an element whose tracking kind is none, navigation or
\* external has settled when execute returns, armed no timer, owns no pending
\* entry, and its promise is resolved by the call alone: no complete() and no
\* timer ever reaches it
C7_UntrackedNeverSuspends ==
    \A c \in DOMAIN calls :
        calls[c].branch \in SyncKinds =>
            /\ calls[c].settled = "resolved"
            /\ calls[c].timer = "none"
            /\ ~OwnsEntry(c)
            /\ calls[c].resolves \in {<<"return">>, <<"catch">>}
            /\ calls[c].result.status \in
                  {IF calls[c].branch = "none" THEN "completed" ELSE calls[c].branch, "error"}

C7_UntrackedSettled ==
    \E c \in DOMAIN calls :
        /\ calls[c].branch = "external"
        /\ calls[c].dispatched
        /\ calls[c].result = Result(TRUE, "external", "external", "-")
        /\ calls[c].id \notin DOMAIN pendingOperations

\* C8: complete(id, r) for an identifier without a pending entry settles no
\* call and leaves the pending-operation map, the registry, the observer
\* queue and the tracker unchanged
C8_CompleteWithoutPendingIsNoop ==
    [][\A id \in Ids, r \in Payloads :
         (id \notin DOMAIN pendingOperations /\ Complete(id, r))
         => UNCHANGED <<pendingOperations, calls, elements, observer, records,
                        operations, idCounter>>]_vars

C8_NoopAfterTimeout ==
    /\ "a" \notin DOMAIN pendingOperations
    /\ \A r \in Payloads : complete(ExecState, "a", r) = ExecState
    /\ \E c \in DOMAIN calls : calls[c].resolves = <<"timeout">>
    /\ \E c \in DOMAIN calls : calls[c].resolves = <<"complete">>

\* the identifiers carried by the nodes attached to the document
AttachedIds == {sid[n] : n \in {m \in Nodes : Attached(m) /\ sid[m] # NoId}}

\* C9: while the observer is connected and no mutation record awaits
\* delivery, the identifiers of the registry are exactly the identifiers
\* carried by attached nodes
C9_RegistryMirrorsDocument ==
    (observer /\ records = <<>>) => DOMAIN elements = AttachedIds

\* a top node was detached and attached again with no other edit in between,
\* and the observer has delivered every record
Reattached == snap.phase = "reattached" /\ observer /\ records = <<>>

ReattachedNodes == Range(Subtree(snap.top))

SameEntry(n) ==
    sid[n] \in DOMAIN elements /\ elements[sid[n]] = snap.reg[sid[n]]

\* C10 as written: after a detachment and re-attachment with unchanged
\* markup, every node of the subtree whose identifier had an entry has an
\* entry with the same derived fields
C10_ReattachRestoresEntry ==
    Reattached =>
        \A n \in ReattachedNodes :
            (sid[n] # NoId /\ sid[n] \in DOMAIN snap.reg) => SameEntry(n)

\* the entry under the node's identifier was derived from the node's own markup
OwnEntry(n) ==
    sid[n] # NoId /\ sid[n] \in DOMAIN snap.reg /\ snap.reg[sid[n]] = parseElement(n)

\* C10: after a detachment and re-attachment with unchanged markup, every
\* node of the subtree whose entry was derived from its own markup, and whose
\* identifier no other node carries, has an entry with the same derived fields
C10_ReattachRestoresUniqueEntry ==
    Reattached =>
        \A n \in ReattachedNodes :
            (OwnEntry(n) /\ \A m \in Nodes \ {n} : sid[m] # sid[n]) => SameEntry(n)

C10_ChildRestored ==
    /\ Reattached
    /\ snap.top = 1
    /\ OwnEntry(2)
    /\ \A m \in Nodes \ {2} : sid[m] # sid[2]
    /\ SameEntry(2)

\* the attached nodes that carry the identifier
Carriers(id) == {n \in Nodes : Attached(n) /\ sid[n] = id}

\* C11: an execute call on a registered, enabled element dispatches only when
\* exactly one attached node carries the identifier; with no such node or
\* with more than one it returns the "not found in DOM" error and dispatches
\* nothing
C11_DispatchNeedsExactlyOneNode ==
    [][Len(calls') = Len(calls) + 1 =>
         LET call == calls'[Len(calls')]
         IN  (call.id \in DOMAIN elements /\ ~elements[call.id].disabled
                /\ Cardinality(Carriers(call.id)) # 1)
             => /\ ~call.dispatched
                /\ call.result = Result(FALSE, "error", "Element not found in DOM", "-")]_vars

\* ------------------------------------------------- the context metadata alone
\* no page, no instance: the state of the module before init()
NoPage ==
    /\ tops = <<>>
    /\ sid = [n \in Nodes |-> NoId]
    /\ disabledAttr = [n \in Nodes |-> "absent"]
    /\ trackingAttr = [n \in Nodes |-> "absent"]
    /\ observer = FALSE
    /\ records = <<>>
    /\ elements = EmptyMap
    /\ pendingOperations = EmptyMap
    /\ calls = <<>>
    /\ operations = EmptyMap
    /\ idCounter = 0
    /\ edits = 0
    /\ snap = NoSnap

\* the page adds, rewrites or removes the metadata block
SetScript(v) ==
    /\ context.script # v
    /\ context' = [context EXCEPT !.script = v]
    /\ UNCHANGED <<tops, sid, disabledAttr, trackingAttr, observer, records, elements,
                   pendingOperations, calls, operations, idCounter, edits, snap,
                   runtime, polls, now, returned, input>>

\* getContextMetadata()
ReadContext ==
    /\ Len(context.reads) < MaxReads
    /\ context' = getContextMetadata(context)
    /\ UNCHANGED <<tops, sid, disabledAttr, trackingAttr, observer, records, elements,
                   pendingOperations, calls, operations, idCounter, edits, snap,
                   runtime, polls, now, returned, input>>

\* clearContextCache()
ClearContextCache ==
    /\ context' = clearContextCache(context)
    /\ UNCHANGED <<tops, sid, disabledAttr, trackingAttr, observer, records, elements,
                   pendingOperations, calls, operations, idCounter, edits, snap,
                   runtime, polls, now, returned, input>>

ContextInit ==
    /\ NoPage
    /\ runtime = NoRuntime
    /\ context \in {FreshContext(script) : script \in Scripts}
    /\ polls = <<>>
    /\ now = 0
    /\ returned = <<>>
    /\ input = <<>>

ContextNext ==
    \/ \E v \in Scripts : SetScript(v)
    \/ ReadContext
    \/ ClearContextCache

ContextSpec == ContextInit /\ [][ContextNext]_vars

\* ---------------------------------------------------- the module entry points
\* new SIDAPIImpl({observeDOM}), stored in currentInstance and window.SID
construct(observeDOM) ==
    LET instance == runtime.instances + 1
    IN  /\ runtime' = [runtime EXCEPT !.currentInstance = instance,
                                      !.windowSID = instance,
                                      !.instances = instance,
                                      !.active = @ \cup {instance},
                                      !.lastInit = instance,
                                      !.inits = @ + 1]
        /\ observer' = observeDOM
        /\ records' = <<>>
        /\ elements' = scanDocument(tops)
        /\ pendingOperations' = EmptyMap
        /\ operations' = EmptyMap
        /\ idCounter' = 0
        /\ snap' = NoSnap
        /\ UNCHANGED <<tops, sid, disabledAttr, trackingAttr, calls, edits,
                       context, polls, now, returned, input>>

\* an init() that constructs on every call
RuntimeInitAlways(observeDOM) ==
    /\ runtime.inits + runtime.destroys < MaxLifecycle
    /\ construct(observeDOM)

\* init(options): the existing instance while one is installed, otherwise a
\* new one
RuntimeInit(observeDOM) ==
    /\ runtime.inits + runtime.destroys < MaxLifecycle
    /\ IF runtime.currentInstance # 0 /\ runtime.windowSID # 0
       THEN /\ runtime' = [runtime EXCEPT !.lastInit = runtime.currentInstance,
                                          !.inits = @ + 1]
            /\ UNCHANGED <<tops, sid, disabledAttr, trackingAttr, observer, records,
                           elements, pendingOperations, calls, operations, idCounter,
                           edits, snap, context, polls, now, returned, input>>
       ELSE construct(observeDOM)

\* destroy(): the instance is torn down and forgotten, window.SID removed
RuntimeDestroy ==
    /\ runtime.inits + runtime.destroys < MaxLifecycle
    /\ IF runtime.currentInstance # 0
       THEN apiDestroy
       ELSE UNCHANGED <<observer, records, elements, operations, snap, context>>
    /\ runtime' = [runtime EXCEPT !.currentInstance = 0,
                                  !.windowSID = 0,
                                  !.active = @ \ {runtime.currentInstance},
                                  !.destroys = @ + 1]
    /\ UNCHANGED <<tops, sid, disabledAttr, trackingAttr, pendingOperations, calls,
                   idCounter, edits, polls, now, returned, input>>

\* the page before init(): the document is there, no instance is
LifecycleInit ==
    /\ tops = <<1, 3>>
    /\ sid \in PageSids
    /\ disabledAttr = [n \in Nodes |-> "absent"]
    /\ trackingAttr = [n \in Nodes |-> "absent"]
    /\ observer = FALSE
    /\ records = <<>>
    /\ elements = EmptyMap
    /\ pendingOperations = EmptyMap
    /\ calls = <<>>
    /\ operations = EmptyMap
    /\ idCounter = 0
    /\ edits = MaxPageEdits
    /\ snap = NoSnap
    /\ runtime = NoRuntime
    /\ context = FreshContext("app1")
    /\ polls = <<>>
    /\ now = 0
    /\ returned = <<>>
    /\ input = <<>>

LifecycleNext ==
    \/ \E observeDOM \in BOOLEAN : RuntimeInit(observeDOM)
    \/ RuntimeDestroy
    \/ runtime.windowSID # 0 /\ Destroy
    \/ \E t \in TopNodes : Detach(t)
    \/ HandleMutations
    \/ ReadContext

LifecycleSpec == LifecycleInit /\ [][LifecycleNext]_vars

\* C12: an init() call made while an instance is active returns that instance
\* and constructs nothing; an init() call made with no active instance returns
\* a new one; after every step at most one instance is active and window.SID
\* refers to it
C12_InitReturnsActiveInstance ==
    [][/\ runtime'.inits = runtime.inits + 1 =>
             IF runtime.active # {}
             THEN /\ runtime'.lastInit \in runtime.active
                  /\ runtime'.instances = runtime.instances
                  /\ runtime'.active = runtime.active
             ELSE /\ runtime'.lastInit = runtime.instances + 1
                  /\ runtime'.instances = runtime.instances + 1
                  /\ runtime'.active = {runtime'.lastInit}
       /\ Cardinality(runtime'.active) <= 1
       /\ runtime'.active = IF runtime'.windowSID = 0 THEN {} ELSE {runtime'.windowSID}
       /\ runtime'.currentInstance = runtime'.windowSID]_vars

C12_FreshAfterDestroy ==
    /\ runtime.inits = 3
    /\ runtime.destroys = 1
    /\ runtime.instances = 2
    /\ runtime.lastInit = 2
    /\ runtime.active = {2}

\* the state a teardown leaves: nothing observed, nothing indexed, nothing
\* tracked, no singleton
TornDown ==
    /\ ~observer
    /\ records = <<>>
    /\ elements = EmptyMap
    /\ operations = EmptyMap
    /\ runtime.windowSID = 0
    /\ runtime.currentInstance = 0

\* C13: every destroy() call leaves the observer disconnected, the registry
\* and the tracker empty, the context cache unparsed and window.SID absent;
\* while no instance is installed no step changes the registry, and a
\* destroy() call made then changes nothing
C13_DestroyClearsEverything ==
    [][/\ runtime'.destroys = runtime.destroys + 1 =>
             /\ TornDown'
             /\ ~context'.contextParsed
             /\ context'.cachedContext.null
             /\ runtime.currentInstance = 0 =>
                   UNCHANGED <<tops, sid, disabledAttr, trackingAttr, observer, records,
                               elements, pendingOperations, calls, operations,
                               idCounter, context>>
       /\ (runtime.currentInstance = 0 /\ runtime'.currentInstance = 0) => TornDown']_vars

\* ------------------------------------------------------- the operation tracker
\* the identifier made from the counter: `op-${n}`
opId(n) == <<"op", n>>
TrackerIds == {opId(n) : n \in 1..MaxStarts}

\* completedAt of a record that has not completed
NoTime == -1

\* a timeout no clock value reaches
Infinity == 99

\* timeoutMs and intervalMs of the poll calls
Timeouts == {1, 2, Infinity}
Intervals == {1, 2}

\* the arguments of a completion: status, optional message and effects
Completions == {[status |-> "success", message |-> "done", effects |-> "fx"],
                [status |-> "error", message |-> "-", effects |-> "-"]}

\* a start() that numbers the operation after the records held
trackerStartBySize(ops, counter, time) ==
    LET n == Cardinality(DOMAIN ops) + 1
    IN  [operations |-> MapSet(ops, opId(n),
                               [id |-> opId(n), status |-> "pending",
                                completedAt |-> NoTime, message |-> "-", effects |-> "-"]),
         idCounter |-> counter + 1,
         id |-> opId(n)]

\* start(elementId, actionType): the records, the counter and the identifier
\* returned
trackerStart(ops, counter, time) ==
    LET n == counter + 1
    IN  [operations |-> MapSet(ops, opId(n),
                               [id |-> opId(n), status |-> "pending",
                                completedAt |-> NoTime, message |-> "-", effects |-> "-"]),
         idCounter |-> n,
         id |-> opId(n)]

\* a complete() that overwrites whatever status the record has
trackerCompleteAny(ops, id, c, time) ==
    IF id \notin DOMAIN ops
    THEN ops
    ELSE [ops EXCEPT ![id] = [@ EXCEPT !.status = c.status,
                                       !.completedAt = time,
                                       !.message = IF c.message # "-" THEN c.message ELSE @,
                                       !.effects = IF c.effects # "-" THEN c.effects ELSE @]]

\* complete(id, status, message?, effects?)
trackerComplete(ops, id, c, time) ==
    IF id \notin DOMAIN ops
    THEN ops
    ELSE IF ops[id].status # "pending"
         THEN ops
         ELSE [ops EXCEPT ![id] = [@ EXCEPT !.status = c.status,
                                            !.completedAt = time,
                                            !.message = IF c.message # "-" THEN c.message ELSE @,
                                            !.effects = IF c.effects # "-" THEN c.effects ELSE @]]

\* what a poll sees under the identifier: the record's status, or "gone"
seen(ops, id) == IF id \in DOMAIN ops THEN ops[id].status ELSE "gone"

NoOperation == [id |-> opId(0), status |-> "-",
                completedAt |-> NoTime, message |-> "-", effects |-> "-"]
NoError == [name |-> "-", operationId |-> opId(0), timeoutMs |-> 0]
NotFoundError == [name |-> "Error", operationId |-> opId(0), timeoutMs |-> 0]
OperationTimeoutError(id, timeoutMs) ==
    [name |-> "OperationTimeoutError", operationId |-> id, timeoutMs |-> timeoutMs]

\* setTimeout(checkStatus, intervalMs): the next check is due an interval
\* later; once the clock has run out the checks go on, counted in rounds
schedule(p, time) ==
    IF time + p.intervalMs > MaxTime
    THEN [p EXCEPT !.due = MaxTime, !.round = 1 - @]
    ELSE [p EXCEPT !.due = time + p.intervalMs]

\* the promise of a poll settles
settle(p, outcome, value, error, ops, time) ==
    [p EXCEPT !.outcome = outcome, !.value = value, !.error = error,
              !.seen = seen(ops, p.id), !.settledAt = time]

\* poll(id, timeoutMs, intervalMs) up to its return: settled at once for an
\* unknown or completed record, otherwise the first check is scheduled
trackerPoll(ops, id, timeoutMs, intervalMs, time) ==
    LET p == [id |-> id, found |-> seen(ops, id), startTime |-> time,
              timeoutMs |-> timeoutMs, intervalMs |-> intervalMs,
              due |-> time + intervalMs, round |-> 0, outcome |-> "pending",
              value |-> NoOperation, error |-> NoError, seen |-> "-",
              settledAt |-> NoTime]
    IN  IF id \notin DOMAIN ops
        THEN settle(p, "rejected", NoOperation, NotFoundError, ops, time)
        ELSE IF ops[id].status \in {"success", "error"}
             THEN settle(p, "resolved", ops[id], NoError, ops, time)
             ELSE p

\* a checkStatus that never looks at the clock
checkStatusNoTimeout(p, ops, time) ==
    IF p.id \notin DOMAIN ops
    THEN settle(p, "rejected", NoOperation, NotFoundError, ops, time)
    ELSE IF ops[p.id].status \in {"success", "error"}
         THEN settle(p, "resolved", ops[p.id], NoError, ops, time)
         ELSE schedule(p, time)

\* a checkStatus that looks at the clock before it looks for the record
checkStatusTimeoutFirst(p, ops, time) ==
    IF time - p.startTime >= p.timeoutMs
    THEN settle(p, "rejected", NoOperation,
                OperationTimeoutError(p.id, p.timeoutMs), ops, time)
    ELSE IF p.id \notin DOMAIN ops
    THEN settle(p, "rejected", NoOperation, NotFoundError, ops, time)
    ELSE IF ops[p.id].status \in {"success", "error"}
         THEN settle(p, "resolved", ops[p.id], NoError, ops, time)
         ELSE schedule(p, time)

\* checkStatus of a poll, run by its timer
checkStatus(p, ops, time) ==
    IF p.id \notin DOMAIN ops
    THEN settle(p, "rejected", NoOperation, NotFoundError, ops, time)
    ELSE IF ops[p.id].status \in {"success", "error"}
         THEN settle(p, "resolved", ops[p.id], NoError, ops, time)
         ELSE IF time - p.startTime >= p.timeoutMs
              THEN settle(p, "rejected", NoOperation,
                          OperationTimeoutError(p.id, p.timeoutMs), ops, time)
              ELSE schedule(p, time)

\* tracker.start(...)
TrackerStart ==
    /\ idCounter < MaxStarts
    /\ LET out == trackerStart(operations, idCounter, now)
       IN  /\ operations' = out.operations
           /\ idCounter' = out.idCounter
           /\ returned' = Append(returned, out.id)
    /\ UNCHANGED <<tops, sid, disabledAttr, trackingAttr, observer, records, elements,
                   pendingOperations, calls, edits, snap, runtime, context, polls,
                   now, input>>

\* tracker.complete(id, status, message, effects)
TrackerComplete(id, c) ==
    /\ operations' = trackerComplete(operations, id, c, now)
    /\ UNCHANGED <<tops, sid, disabledAttr, trackingAttr, observer, records, elements,
                   pendingOperations, calls, idCounter, edits, snap, runtime, context,
                   polls, now, returned, input>>

\* tracker.clear()
TrackerClear ==
    /\ operations' = trackerClear
    /\ UNCHANGED <<tops, sid, disabledAttr, trackingAttr, observer, records, elements,
                   pendingOperations, calls, idCounter, edits, snap, runtime, context,
                   polls, now, returned, input>>

\* tracker.poll(id, timeoutMs, intervalMs); the clock runs far enough for
\* the poll to reach a finite timeout
Poll(id, timeoutMs, intervalMs) ==
    /\ Len(polls) < MaxPolls
    /\ now + intervalMs <= MaxTime
    /\ timeoutMs = Infinity \/ now + timeoutMs + intervalMs - 1 <= MaxTime
    /\ polls' = Append(polls, trackerPoll(operations, id, timeoutMs, intervalMs, now))
    /\ UNCHANGED <<tops, sid, disabledAttr, trackingAttr, observer, records, elements,
                   pendingOperations, calls, operations, idCounter, edits, snap,
                   runtime, context, now, returned, input>>

\* the timer of a poll fires, at its due time or later
PollCheck(i) ==
    /\ i \in DOMAIN polls
    /\ polls[i].outcome = "pending"
    /\ now >= polls[i].due
    /\ polls' = [polls EXCEPT ![i] = checkStatus(@, operations, now)]
    /\ UNCHANGED <<tops, sid, disabledAttr, trackingAttr, observer, records, elements,
                   pendingOperations, calls, operations, idCounter, edits, snap,
                   runtime, context, now, returned, input>>

\* a millisecond passes
Tick ==
    /\ now < MaxTime
    /\ now' = now + 1
    /\ UNCHANGED <<tops, sid, disabledAttr, trackingAttr, observer, records, elements,
                   pendingOperations, calls, operations, idCounter, edits, snap,
                   runtime, context, polls, returned, input>>

\* new OperationTracker()
TrackerInit ==
    /\ NoPage
    /\ runtime = NoRuntime
    /\ context = FreshContext("missing")
    /\ polls = <<>>
    /\ now = 0
    /\ returned = <<>>
    /\ input = <<>>

\* the tracker's records alone
TrackerNext ==
    \/ TrackerStart
    \/ \E id \in TrackerIds, c \in Completions : TrackerComplete(id, c)
    \/ TrackerClear
    \/ Tick

TrackerSpec == TrackerInit /\ [][TrackerNext]_vars

\* the tracker with poll calls and their timers
PollNext ==
    \/ TrackerStart
    \/ \E id \in TrackerIds, c \in Completions : TrackerComplete(id, c)
    \/ TrackerClear
    \/ \E id \in TrackerIds, timeoutMs \in Timeouts, intervalMs \in Intervals :
          Poll(id, timeoutMs, intervalMs)
    \/ \E i \in 1..MaxPolls : PollCheck(i)
    \/ Tick

PollSpec == TrackerInit /\ [][PollNext]_vars

\* time advances and every timer fires
FairPollSpec ==
    /\ TrackerInit
    /\ [][PollNext]_vars
    /\ WF_vars(Tick)
    /\ \A i \in 1..MaxPolls : WF_vars(PollCheck(i))

C15_StatusChangesOnce ==
    [][/\ \A id \in DOMAIN operations \cap DOMAIN operations' :
             /\ operations[id].status # "pending" => operations'[id] = operations[id]
             /\ operations'[id].status # operations[id].status
                   => /\ operations[id].status = "pending"
                      /\ operations'[id].status \in {"success", "error"}
       /\ \A id \in TrackerIds, c \in Completions :
             seen(operations', id) # "pending"
             => trackerComplete(operations', id, c, now') = operations']_vars

C15_CompletedEarlier ==
    /\ seen(operations, opId(1)) = "success"
    /\ operations[opId(1)].completedAt < now
    /\ seen(operations, opId(2)) = "pending"

\* a poll on an unknown identifier is rejected with the not-found error by
\* the call itself, a poll on a completed record is resolved with that
\* record by the call itself
SettledByCall(i) ==
    /\ polls[i].found = "gone" =>
          /\ polls[i].outcome = "rejected"
          /\ polls[i].error = NotFoundError
          /\ polls[i].settledAt = polls[i].startTime
    /\ polls[i].found \in {"success", "error"} =>
          /\ polls[i].outcome = "resolved"
          /\ polls[i].value.id = polls[i].id
          /\ polls[i].value.status = polls[i].found
          /\ polls[i].settledAt = polls[i].startTime

\* C16: a poll on an unknown identifier fails at once, a poll on a completed
\* record resolves at once, and every poll is eventually settled, whatever
\* start, complete and clear calls are interleaved with its timers
C16_EveryPollSettles ==
    /\ [](\A i \in DOMAIN polls : SettledByCall(i))
    /\ <>[](\A i \in DOMAIN polls : polls[i].outcome # "pending")

\* C16, amended: a poll on an unknown identifier fails at once, a poll on a
\* completed record resolves at once, and every poll with a finite timeout is
\* eventually settled, whatever start, complete and clear calls are
\* interleaved with its timers
C16_EveryFinitePollSettles ==
    /\ [](\A i \in DOMAIN polls : SettledByCall(i))
    /\ <>[](\A i \in DOMAIN polls :
               polls[i].timeoutMs # Infinity => polls[i].outcome # "pending")

C16_ClearedWhilePolled ==
    /\ Len(polls) = 1
    /\ polls[1].found = "pending"
    /\ polls[1].outcome = "rejected"
    /\ polls[1].error = NotFoundError
    /\ polls[1].settledAt > polls[1].startTime
    /\ Len(returned) = 2

\* C17: a poll that found its record pending and whose record is still there
\* when it settles is either resolved with the record, completed within
\* timeoutMs of the poll's start, or rejected with an OperationTimeoutError
\* that carries the poll's identifier and timeoutMs, no sooner than timeoutMs
\* after the start and with the record still pending
C17_PollOutcomeFollowsTimeout ==
    \A i \in DOMAIN polls :
        (polls[i].found = "pending" /\ polls[i].outcome # "pending"
           /\ polls[i].seen # "gone")
        => \/ /\ polls[i].outcome = "resolved"
              /\ polls[i].value.id = polls[i].id
              /\ polls[i].value.status \in {"success", "error"}
              /\ polls[i].value.completedAt - polls[i].startTime <= polls[i].timeoutMs
           \/ /\ polls[i].outcome = "rejected"
              /\ polls[i].error = OperationTimeoutError(polls[i].id, polls[i].timeoutMs)
              /\ polls[i].settledAt - polls[i].startTime >= polls[i].timeoutMs
              /\ polls[i].seen = "pending"

\* ------------------------------------------------------ the input constraint
\* an attribute value is a sequence of pieces: a blank, a comma, or a word
Pieces == {" ", ",", "text", "TEXT", "file", "required", "Required", "optional", "bogus"}
Strings == UNION {[1..n -> Pieces] : n \in 0..MaxInputLen}

VALID_INPUT_DATA_TYPES == {<<"text">>, <<"number">>, <<"date">>, <<"email">>,
                           <<"password">>, <<"file">>}
isValidInputDataType(value) == value \in VALID_INPUT_DATA_TYPES

\* String.prototype.trim
RECURSIVE trimStart(_)
trimStart(str) ==
    IF str # <<>> /\ Head(str) = " " THEN trimStart(Tail(str)) ELSE str
RECURSIVE trimEnd(_)
trimEnd(str) ==
    IF str # <<>> /\ str[Len(str)] = " "
    THEN trimEnd(SubSeq(str, 1, Len(str) - 1))
    ELSE str
trim(str) == trimEnd(trimStart(str))

\* String.prototype.toLowerCase
lowerPiece(piece) ==
    CASE piece = "TEXT" -> "text"
      [] piece = "Required" -> "required"
      [] OTHER -> piece
toLowerCase(str) == [k \in DOMAIN str |-> lowerPiece(str[k])]

\* String.prototype.split(','): the parts between the commas
RECURSIVE split(_)
split(str) ==
    IF \A k \in DOMAIN str : str[k] # ","
    THEN <<str>>
    ELSE LET at == CHOOSE k \in DOMAIN str :
                       str[k] = "," /\ \A j \in 1..(k - 1) : str[j] # ","
         IN  <<SubSeq(str, 1, at - 1)>> \o split(SubSeq(str, at + 1, Len(str)))

NoInput == [null |-> TRUE, dataType |-> <<>>, required |-> FALSE]

\* a parseInputAttribute whose flag is true for "optional"
parseInputAttributeInverted(value) ==
    IF value = <<>>
    THEN NoInput
    ELSE LET parts == split(trim(value))
         IN  IF Len(parts) # 2
             THEN NoInput
             ELSE LET dataTypePart == toLowerCase(trim(parts[1]))
                      requiredPart == toLowerCase(trim(parts[2]))
                  IN  IF ~isValidInputDataType(dataTypePart)
                      THEN NoInput
                      ELSE IF requiredPart # <<"required">> /\ requiredPart # <<"optional">>
                           THEN NoInput
                           ELSE [null |-> FALSE, dataType |-> dataTypePart,
                                 required |-> requiredPart = <<"optional">>]

\* parseInputAttribute(value)
parseInputAttribute(value) ==
    IF value = <<>>
    THEN NoInput
    ELSE LET parts == split(trim(value))
         IN  IF Len(parts) # 2
             THEN NoInput
             ELSE LET dataTypePart == toLowerCase(trim(parts[1]))
                      requiredPart == toLowerCase(trim(parts[2]))
                  IN  IF ~isValidInputDataType(dataTypePart)
                      THEN NoInput
                      ELSE IF requiredPart # <<"required">> /\ requiredPart # <<"optional">>
                           THEN NoInput
                           ELSE [null |-> FALSE, dataType |-> dataTypePart,
                                 required |-> requiredPart = <<"required">>]

\* dataType + "," + (required ? "required" : "optional")
encodeInput(r) ==
    r.dataType \o <<",">> \o (IF r.required THEN <<"required">> ELSE <<"optional">>)

\* an attribute value is parsed
ParseInput ==
    /\ input.stage = "given"
    /\ input' = [input EXCEPT !.stage = "parsed",
                              !.result = parseInputAttribute(input.value)]
    /\ UNCHANGED <<tops, sid, disabledAttr, trackingAttr, observer, records, elements,
                   pendingOperations, calls, operations, idCounter, edits, snap,
                   runtime, context, polls, now, returned>>

\* the parsed record is written back as an attribute value
EncodeInput ==
    /\ input.stage = "parsed"
    /\ ~input.result.null
    /\ input' = [input EXCEPT !.stage = "encoded", !.encoded = encodeInput(input.result)]
    /\ UNCHANGED <<tops, sid, disabledAttr, trackingAttr, observer, records, elements,
                   pendingOperations, calls, operations, idCounter, edits, snap,
                   runtime, context, polls, now, returned>>

\* the written value is parsed
ParseEncoded ==
    /\ input.stage = "encoded"
    /\ input' = [input EXCEPT !.stage = "reparsed",
                              !.again = parseInputAttribute(input.encoded)]
    /\ UNCHANGED <<tops, sid, disabledAttr, trackingAttr, observer, records, elements,
                   pendingOperations, calls, operations, idCounter, edits, snap,
                   runtime, context, polls, now, returned>>

InputInit ==
    /\ NoPage
    /\ runtime = NoRuntime
    /\ context = FreshContext("missing")
    /\ polls = <<>>
    /\ now = 0
    /\ returned = <<>>
    /\ input \in {[value |-> str, stage |-> "given", result |-> NoInput,
                   encoded |-> <<>>, again |-> NoInput] : str \in Strings}

InputNext == ParseInput \/ EncodeInput \/ ParseEncoded

InputSpec == InputInit /\ [][InputNext]_vars

\* C20: when a value is accepted with record r, the value written from r is
\* accepted as well and parses to a record equal to r
C20_ReencodedInputParsesEqual ==
    input.stage = "reparsed" =>
        /\ ~input.again.null
        /\ input.again.dataType = input.result.dataType
        /\ input.again.required = input.result.required

C20_NormalizedRoundTrip ==
    /\ input.stage = "reparsed"
    /\ input.value = <<" ", "TEXT", ",", "Required">>
    /\ input.encoded = <<"text", ",", "required">>
    /\ input.again = input.result
    /\ input.result.required

\* C18: the reads made under one cache epoch (between two clearContextCache
\* calls) all return the content of the first of them, whatever the block
\* holds by then; the first read of an epoch parses the block, so it returns
\* what the document holds at that moment
C18_ReadsRepeatFirstRead ==
    \A i \in DOMAIN context.reads :
        /\ context.reads[i].fresh <=>
              (i = 1 \/ context.reads[i - 1].epoch # context.reads[i].epoch)
        /\ context.reads[i].fresh => context.reads[i].content = context.reads[i].doc
        /\ \A j \in DOMAIN context.reads :
              context.reads[i].epoch = context.reads[j].epoch
              => context.reads[i].content = context.reads[j].content

C18_StaleThenFresh ==
    /\ Len(context.reads) = 3
    /\ context.reads[1].epoch = context.reads[2].epoch
    /\ context.reads[2].doc # context.reads[1].doc
    /\ context.reads[2].content = context.reads[1].content
    /\ context.reads[3].epoch # context.reads[2].epoch
    /\ context.reads[3].content = context.reads[3].doc
    /\ context.reads[3].content # context.reads[2].content

\* C19: the reads made under one cache epoch all return the same object
C19_ReadsReturnSameObject ==
    \A i, j \in DOMAIN context.reads :
        context.reads[i].epoch = context.reads[j].epoch
        => context.reads[i].ref = context.reads[j].ref

\* the preconditions execute tests before it reaches the node
FailedPreconditions == {"unknown", "disabled", "detached"}

\* C21: a settled call has success false exactly when a precondition failed
\* or the dispatch threw; a call settled by a completion signal or by its
\* timeout has success true, whatever status was signaled
C21_SuccessFalseOnlyOnFailures ==
    \A c \in DOMAIN calls :
        calls[c].settled = "resolved" =>
            /\ calls[c].resolves[1] \in {"complete", "timeout"} => calls[c].result.success
            /\ ~calls[c].result.success <=>
                  \/ calls[c].branch \in FailedPreconditions
                  \/ calls[c].resolves[1] = "catch"

C21_ErrorSignalSucceeds ==
    \E c \in DOMAIN calls :
        /\ calls[c].resolves = <<"complete">>
        /\ calls[c].result.status = "error"
        /\ calls[c].result.success

\* the error execute owes a call: that of the first precondition that fails,
\* in the order unknown identifier, disabled, not in the document, action not
\* applicable to the node; "-" when all four pass
FirstFailure(id, action) ==
    IF id \notin DOMAIN elements THEN "Element not found"
    ELSE IF elements[id].disabled THEN "Element is disabled"
    ELSE IF Carriers(id) = {} THEN "Element not found in DOM"
    ELSE IF triggerActionThrows(FirstMatch(DocOrder(tops), id), action)
         THEN "Action execution failed"
    ELSE "-"

C23_AsyncDispatchFailureSettles ==
    [][\A c \in DOMAIN calls' :
         (calls'[c].branch = "async" /\ "catch" \in Range(calls'[c].resolves))
         => /\ calls'[c].settled = "resolved"
            /\ calls'[c].result = Result(FALSE, "error", "Action execution failed", "-")
            /\ calls'[c].timer = "cleared"
            /\ calls'[c].resolves = <<"catch">>
            /\ ~calls'[c].dispatched
            /\ ~OwnsEntry(c)'
            /\ c \notin DOMAIN calls => calls'[c].id \notin DOMAIN pendingOperations']_vars

C23_FailedThenTimePassed ==
    \E c \in DOMAIN calls :
        /\ calls[c].branch = "async"
        /\ calls[c].resolves = <<"catch">>
        /\ calls[c].timer = "cleared"
        /\ calls[c].elapsed
        /\ ~calls[c].result.success

\* C24: in every state, an execute call that takes the async branch and whose
\* dispatch runs a handler that signals completion is settled by that signal,
\* with the signaled status, message and effects; its timer is cleared and no
\* entry stays behind
C24_SignalDuringDispatchSettles ==
    \A id \in ExecIds, action \in ActionTypes, signal \in SyncSignals :
        LET out == execute(ExecState, id, action, signal)
            call == out.calls[Len(out.calls)]
        IN  (call.branch = "async" /\ call.dispatched)
            => /\ call.settled = "resolved"
               /\ call.result = Result(TRUE, signal.status, signal.message, signal.effects)
               /\ call.resolves = <<"complete">>
               /\ call.timer = "cleared"
               /\ id \notin DOMAIN out.pending

C24_SettledDuringDispatch ==
    /\ Len(calls) = 1
    /\ calls[1].branch = "async"
    /\ calls[1].dispatched
    /\ calls[1].resolves = <<"complete">>
    /\ calls[1].result \in {Result(TRUE, signal.status, signal.message, signal.effects) :
                              signal \in SyncSignals}
    /\ calls[1].timer = "cleared"
    /\ ~calls[1].elapsed
    /\ pendingOperations = EmptyMap

\* C25: a call that gets past the three precondition checks takes the branch
\* named by the data-sid-tracking attribute the target node carries at the
\* time of the call (async when the attribute is absent or not a tracking
\* type), whatever the registry entry says
C25_BranchFollowsLiveTracking ==
    [][Len(calls') = Len(calls) + 1 =>
         LET call == calls'[Len(calls')]
             node == FirstMatch(DocOrder(tops), call.id)
         IN  call.branch \notin FailedPreconditions
             => /\ node # NoNode
                /\ call.branch = IF trackingAttr[node] \in {"async", "navigation",
                                                            "external", "none"}
                                 THEN trackingAttr[node] ELSE "async"]_vars

C25_BranchDiffersFromEntry ==
    \E c \in DOMAIN calls :
        /\ calls[c].branch = "none"
        /\ calls[c].id \in DOMAIN elements
        /\ elements[calls[c].id].tracked
        /\ calls[c].dispatched

\* the instance has been destroyed: nothing indexed, nothing observed
Destroyed == elements = EmptyMap /\ ~observer /\ records = <<>>

\* C26: destroy() leaves every call and the pending map as they are; a call
\* still pending on a destroyed instance has its timer armed, its timer
\* callback settles it with the timeout result, and while the entry is its
\* own complete() settles it with the signaled result
C26_DestroyKeepsPendingCalls ==
    [][/\ Destroy => UNCHANGED <<calls, pendingOperations>>
       /\ \A c \in DOMAIN calls' :
            (Destroyed' /\ calls'[c].settled = "pending")
            => /\ calls'[c].timer = "armed"
               /\ timeoutCallback(ExecState', c).calls[c].result = TimeoutResult
               /\ OwnsEntry(c)' =>
                    \A r \in Payloads :
                        complete(ExecState', calls'[c].id, r).calls[c].result =
                            Result(TRUE, r.status, r.message, r.effects)]_vars

C26_PendingAfterDestroy ==
    /\ Destroyed
    /\ \E c \in DOMAIN calls :
          /\ calls[c].settled = "pending"
          /\ calls[c].timer = "armed"
          /\ calls[c].elapsed
          /\ OwnsEntry(c)

\* the registry once the observer has delivered the queued records
Processed == handleMutations(elements, records)

\* C27: with observation on and nothing queued, when data-sid is removed from
\* an attached node that alone carries its identifier and whose entry is the
\* parse of that node, the registry no longer holds the entry once the
\* record of the removal is processed
C27_RemovedSidRemovesEntry ==
    [][\A n \in Nodes :
         (/\ observer
          /\ records = <<>>
          /\ Carriers(sid[n]) = {n}
          /\ sid[n] \in DOMAIN elements
          /\ elements[sid[n]] = parseElement(n)
          /\ sid'[n] = NoId
          /\ records' = <<AttributeRecord(n, "data-sid")>>)
         => sid[n] \notin DOMAIN Processed']_vars

\* the registry once the observer has delivered the first k queued records
ProcessedUpTo(k) == handleMutations(elements, SubSeq(records, 1, k))

\* C28: with observation on, when data-sid-disabled or data-sid-tracking
\* changes on an attached node whose identifier the registry holds by the
\* time the record is reached, the entry under that identifier is, once the
\* record is processed, the parse of the node as it then is
C28_AttributeChangeReparsesEntry ==
    [][\A n \in Nodes, name \in {"data-sid-disabled", "data-sid-tracking"} :
         (/\ observer
          /\ records' = Append(records, AttributeRecord(n, name))
          /\ sid[n] # NoId
          /\ sid[n] \in DOMAIN ProcessedUpTo(Len(records) - 1)')
         => /\ sid[n] \in DOMAIN Processed'
            /\ Processed'[sid[n]] = parseElement(n)']_vars

C28_EntryRefreshed ==
    /\ observer
    /\ records = <<>>
    /\ \E n \in Nodes :
          /\ Attached(n)
          /\ sid[n] \in DOMAIN elements
          /\ disabledAttr[n] = "true"
          /\ trackingAttr[n] = "none"
          /\ elements[sid[n]] = parseElement(n)
          /\ elements[sid[n]].disabled
          /\ ~elements[sid[n]].tracked

\* ------------------------------------------- the three components together
\* SIDAPIImpl holds one registry, one legacy tracker and one executor: the
\* calls of the executor interleave with the page's edits, the observer's
\* deliveries and the calls of the tracker
FrameNext ==
    \/ \E t \in TopNodes : Detach(t)
    \/ \E n \in Nodes, v \in DisabledAttrs : sid[n] \in ExecIds /\ SetDisabled(n, v)
    \/ HandleMutations
    \/ \E id \in ExecIds, signal \in SyncSignals \cup {NoSignal} :
          Execute(id, "click", signal)
    \/ \E id \in Ids, result \in Payloads : Complete(id, result)
    \/ \E c \in 1..MaxCalls : TimerFire(c)
    \/ \E c \in 1..MaxCalls : Elapse(c)
    \/ TrackerStart
    \/ \E id \in TrackerIds, c \in Completions : TrackerComplete(id, c)
    \/ TrackerClear
    \/ Destroy

FrameSpec == Init /\ [][FrameNext]_vars

\* C29: a step that changes the executor's calls or pending operations (an
\* execute, a complete, a timer) changes neither the registry's index and
\* observer queue nor the tracker's records and counter; a step that changes
\* the tracker's records or the registry (a tracker call, an observer
\* delivery, a page edit, destroy) changes neither the pending operations
\* nor any call
C29_ComponentsKeepApart ==
    [][/\ (<<calls, pendingOperations>>' # <<calls, pendingOperations>>)
            => UNCHANGED <<elements, observer, records, operations, idCounter>>
       /\ (<<operations, idCounter>>' # <<operations, idCounter>>)
            => UNCHANGED <<calls, pendingOperations>>
       /\ (<<tops, sid, disabledAttr, trackingAttr, elements, observer, records>>'
              # <<tops, sid, disabledAttr, trackingAttr, elements, observer, records>>)
            => UNCHANGED <<calls, pendingOperations>>]_vars

C29_PendingOutlivesEntry ==
    /\ observer
    /\ records = <<>>
    /\ operations # EmptyMap
    /\ \E c \in DOMAIN calls :
          /\ calls[c].settled = "pending"
          /\ calls[c].timer = "armed"
          /\ OwnsEntry(c)
          /\ calls[c].id \notin DOMAIN elements

\* C30: whenever the pending entry that a call owns is gone from the pending
\* map after a step, that call was unsettled before the step and is settled
\* after it
C30_EntryRemovedOnlyByOwnSettlement ==
    [][\A c \in DOMAIN calls :
         (OwnsEntry(c) /\ calls[c].id \notin DOMAIN pendingOperations')
         => /\ calls[c].settled = "pending"
            /\ calls'[c].settled = "resolved"]_vars

\* C31: a completion signal the page emits for a dispatched call c1, which
\* reaches the executor as complete(id of c1, r), leaves every other unsettled
\* call on that identifier unsettled
C31_SignalSettlesOnlyItsOwnCall ==
    \A c1 \in DOMAIN calls, c2 \in DOMAIN calls, r \in Payloads :
        (/\ c1 # c2
         /\ calls[c1].id = calls[c2].id
         /\ calls[c2].settled = "pending"
         /\ calls[c1].dispatched)
        => complete(ExecState, calls[c1].id, r).calls[c2].settled = "pending"

\* the calls on an identifier whose executor timer is armed
ArmedTimers(id) == {c \in DOMAIN calls : calls[c].id = id /\ calls[c].timer = "armed"}

\* C32: in every state and for every identifier, the number of armed executor
\* timers equals the number of pending entries of the identifier, 0 or 1
C32_ArmedTimersMatchEntries ==
    \A id \in Ids :
        Cardinality(ArmedTimers(id)) = IF id \in DOMAIN pendingOperations THEN 1 ELSE 0

\* C33: an execute call that settles with success false leaves the pending
\* map as it was before the call
C33_FailedExecuteKeepsPendingMap ==
    [][(/\ Len(calls') = Len(calls) + 1
        /\ calls'[Len(calls')].settled = "resolved"
        /\ ~calls'[Len(calls')].result.success)
       => pendingOperations' = pendingOperations]_vars

\* C34: with observation on and nothing queued, when the page changes the
\* data-sid of a node registered under A to B, then once the record is
\* processed the registry has an entry for B, and has an entry for A only if
\* an attached node carries A
C34_ChangedSidMovesEntry ==
    [][\A n \in Nodes :
         (/\ observer /\ records = <<>>
          /\ sid[n] # NoId
          /\ sid[n] \in DOMAIN elements /\ elements[sid[n]] = parseElement(n)
          /\ sid'[n] # NoId /\ sid'[n] # sid[n]
          /\ records' = <<AttributeRecord(n, "data-sid")>>)
         => /\ sid'[n] \in DOMAIN Processed'
            /\ (sid[n] \in DOMAIN Processed'
                  => \E m \in Nodes : Attached(m)' /\ sid'[m] = sid[n])]_vars

\* the identifiers carried by a node and its descendants
SubtreeIds(node) == {sid[m] : m \in {node} \cup Range(Children(node))} \ {NoId}

\* C35: with observation on and nothing queued, when a node carrying X is
\* replaced in one DOM operation by a node carrying X (one record with an
\* added and a removed node), the registry contains X once the record is
\* processed
C35_ReplacedByTwinStaysRegistered ==
    [][\A new \in TopNodes, old \in TopNodes, X \in Ids :
         (/\ observer /\ records = <<>>
          /\ X \in SubtreeIds(old) \cap SubtreeIds(new)
          /\ records' = <<ChildListRecord(<<new>>, <<old>>)>>)
         => X \in DOMAIN Processed']_vars

\* the node whose parse scanDocument leaves under an identifier: forEach runs
\* in document order and every set overwrites, so the last carrier
RECURSIVE LastMatch(_, _)
LastMatch(order, id) ==
    IF order = <<>> THEN NoNode
    ELSE IF sid[order[Len(order)]] = id THEN order[Len(order)]
    ELSE LastMatch(SubSeq(order, 1, Len(order) - 1), id)

ScannedFrom(id) == LastMatch(DocOrder(tops), id)

\* C36: while the registry is the scan of a document the page has not edited
\* since, the node on which an execute call dispatches is the node whose
\* markup produced the entry of the call's identifier
C36_DispatchNodeProducedEntry ==
    [][(/\ Len(calls') = Len(calls) + 1
        /\ calls'[Len(calls')].dispatched
        /\ edits = MaxPageEdits
        /\ elements = scanDocument(tops))
       => querySelector(elements[calls'[Len(calls')].id].selector)
             = ScannedFrom(calls'[Len(calls')].id)]_vars

\* ------------------------------------------------ the facade's legacy calls
\* tracker.get(id): the record, or null
trackerGet(ops, id) == IF id \in DOMAIN ops THEN ops[id] ELSE NoOperation

\* the calls of SIDAPIImpl that reach the executor or the legacy tracker:
\* interact, complete, pollOperation and destroy, with the executor's timers
\* and the clock; getOperation only reads the tracker and changes no state
FacadeNext ==
    \/ \E id \in ExecIds, signal \in SyncSignals \cup {NoSignal} :
          Execute(id, "click", signal)
    \/ \E id \in Ids, result \in Payloads : Complete(id, result)
    \/ \E c \in 1..MaxCalls : TimerFire(c)
    \/ \E c \in 1..MaxCalls : Elapse(c)
    \/ \E id \in TrackerIds, timeoutMs \in Timeouts, intervalMs \in Intervals :
          Poll(id, timeoutMs, intervalMs)
    \/ Tick
    \/ Destroy

FacadeSpec == Init /\ [][FacadeNext]_vars

C38_ClearedPollFailsNotFound ==
    [][\A i \in DOMAIN polls :
         (polls[i].outcome = "pending" /\ polls[i].id \notin DOMAIN operations)
         => /\ polls[i].id \notin DOMAIN operations'
            /\ polls'[i] # polls[i]
                  => /\ polls'[i].outcome = "rejected"
                     /\ polls'[i].error = NotFoundError]_vars

C38_ClearedPastTimeout ==
    \E i \in DOMAIN polls :
        /\ polls[i].found = "pending"
        /\ polls[i].outcome = "rejected"
        /\ polls[i].error = NotFoundError
        /\ polls[i].settledAt - polls[i].startTime >= polls[i].timeoutMs

====
